---- MODULE Spec2Model ----
(***************************************************************************)
(* Model of the multiboot2 framebuffer tag (multiboot2/src/framebuffer.rs) *)
(* and of the marker header tags of multiboot2-header (end.rs,             *)
(* uefi_bs.rs).                                                            *)
(*                                                                         *)
(* Integers: TLC's integers are 32-bit, so every value of the model stays  *)
(* below 2^31.  The byte sets below keep the most significant byte of a    *)
(* u32 at or below 127.  The shifts of read_u16 / read_u32 act on operands *)
(* already widened by `as`, so no bit is shifted out and no reduction      *)
(* modulo 2^w is needed; dst_len subtracts only under its assertion.       *)
(* The target is little-endian (x86), so to_ne_bytes is little-endian.     *)
(***************************************************************************)
EXTENDS Integers, Sequences, FiniteSets, TLC

\* ------------------------------------------------------------------ bounds

\* Longest payload a loaded (producer-supplied) framebuffer tag carries.
MaxPayloadLen == 7
\* Most palette entries handed to FramebufferTag::new.
MaxPalette == 2
\* Bytes of memory modelled from the start of a payload on: where the payload
\* is shorter, the bytes behind the record's declared end fill the window.
TrailLen == 6
\* Bytes of backing memory under a stand-alone Reader.
ReaderMemLen == 6
\* Most header tags constructed in one behaviour.
MaxTags == 4

\* Byte values a producer writes into a payload (and that lie behind it).
ByteVals == {0, 1, 2}
\* Byte values of the memory under a stand-alone Reader.
ReaderBytes == {0, 1, 127}
\* Addresses a tag (or a Reader's window) is placed at.
TagBases == {4096, 65536}
\* Values of the type_no byte a producer may write.
TypeNos == {0, 1, 2, 3, 255}
\* Values of the reserved u16 a producer may write.
ReservedVals == {0}
\* (address, pitch, width, height, bpp) tuples used as inputs.
Metas ==
  { [address |-> 753664, pitch |-> 160, width |-> 80, height |-> 25, bpp |-> 16],
    [address |-> 2147483647, pitch |-> 4096, width |-> 1024, height |-> 768, bpp |-> 32],
    [address |-> 0, pitch |-> 0, width |-> 0, height |-> 0, bpp |-> 0] }
\* Palette colours and RGB field descriptors used as inputs.
Colors ==
  { [red |-> 1, green |-> 2, blue |-> 3],
    [red |-> 255, green |-> 0, blue |-> 0],
    [red |-> 0, green |-> 0, blue |-> 0] }
Fields ==
  { [position |-> 16, size |-> 8],
    [position |-> 8, size |-> 8],
    [position |-> 0, size |-> 5] }

\* ------------------------------------------------------- integer helpers

\* The `|` of two unsigned integers.
RECURSIVE BitOr(_, _)
BitOr(a, b) ==
  IF a = 0 THEN b
  ELSE IF b = 0 THEN a
  ELSE (IF a % 2 = 1 \/ b % 2 = 1 THEN 1 ELSE 0) + 2 * BitOr(a \div 2, b \div 2)

\* `x << k` on an operand whose upper k bits are zero.
Shl(x, k) == x * (2 ^ k)

\* n-byte native-endian (little-endian) encoding of x.
RECURSIVE to_ne_bytes(_, _)
to_ne_bytes(x, n) ==
  IF n = 0 THEN <<>> ELSE <<x % 256>> \o to_ne_bytes(x \div 256, n - 1)

\* Native-endian (little-endian) load of an integer field from its bytes.
RECURSIVE from_ne_bytes(_)
from_ne_bytes(bs) ==
  IF bs = <<>> THEN 0 ELSE Head(bs) + 256 * from_ne_bytes(Tail(bs))

\* Concatenation of a sequence of byte slices.
RECURSIVE Concat(_)
Concat(ss) == IF ss = <<>> THEN <<>> ELSE Head(ss) \o Concat(Tail(ss))

\* ----------------------------------------------------------------- memory

\* The byte at absolute address a of a memory window [base, bytes].
Deref(mem, a) == mem.bytes[a - mem.base + 1]

\* ----------------------------------------------------------------- Reader

Reader_new(ptr) == [ptr |-> ptr, off |-> 0]

\* Each read yields the reader after it, the value, and the addresses it
\* dereferenced.
read_u8_no_advance(mem, r) ==
  [r |-> r, val |-> Deref(mem, r.ptr + r.off), at |-> {r.ptr + r.off}]

read_u8(mem, r) ==
  LET r1 == [r EXCEPT !.off = @ + 1]
  IN [r |-> r1, val |-> Deref(mem, r1.ptr + (r1.off - 1)), at |-> {r1.ptr + (r1.off - 1)}]

read_u16_swapped(mem, r) ==
  LET a == read_u8(mem, r)
      b == read_u8(mem, a.r)
  IN [r |-> b.r, val |-> BitOr(b.val, Shl(a.val, 8)), at |-> a.at \cup b.at]

read_u16(mem, r) ==
  LET a == read_u8(mem, r)
      b == read_u8(mem, a.r)
  IN [r |-> b.r, val |-> BitOr(a.val, Shl(b.val, 8)), at |-> a.at \cup b.at]

read_u32(mem, r) ==
  LET a == read_u16(mem, r)
      b == read_u16(mem, a.r)
  IN [r |-> b.r, val |-> BitOr(a.val, Shl(b.val, 16)), at |-> a.at \cup b.at]

current_address_base(r) == r.ptr

current_address(r) == r.ptr + r.off

\* --------------------------------------------------------- FramebufferTag

METADATA_SIZE == 4 + 4 * 4 + 8 + 2 + 2 * 1

\* size_of::<FramebufferColor>()
ColorSize == 3

\* header.size as usize - METADATA_SIZE, under its assertion.
dst_len_unchecked(header) == [panic |-> FALSE, len |-> header.size - METADATA_SIZE]

dst_len(header) ==
  IF header.size >= METADATA_SIZE
  THEN [panic |-> FALSE, len |-> header.size - METADATA_SIZE]
  ELSE [panic |-> TRUE, len |-> 0]

\* The repr(C) struct over a header and the bytes that follow it, placed at
\* address base; the trailing [u8] has the length dst_len gives.
FramebufferTag(base, header, body, len) ==
  [ base |-> base,
    header |-> header,
    address |-> from_ne_bytes(SubSeq(body, 1, 8)),
    pitch |-> from_ne_bytes(SubSeq(body, 9, 12)),
    width |-> from_ne_bytes(SubSeq(body, 13, 16)),
    height |-> from_ne_bytes(SubSeq(body, 17, 20)),
    bpp |-> from_ne_bytes(SubSeq(body, 21, 21)),
    type_no |-> from_ne_bytes(SubSeq(body, 22, 22)),
    reserved |-> from_ne_bytes(SubSeq(body, 23, 24)),
    buffer |-> SubSeq(body, 25, 24 + len) ]

\* self.buffer.as_ptr(): the trailing field follows the metadata.
buffer_as_ptr(self) == self.base + METADATA_SIZE

address(self) == self.address
pitch(self) == self.pitch
width(self) == self.width
height(self) == self.height
bpp(self) == self.bpp

\* FramebufferTypeId::try_from
try_from_zero_err(value) ==
  CASE value = 0 -> [ok |-> TRUE, val |-> "Indexed", err |-> 0]
    [] value = 1 -> [ok |-> TRUE, val |-> "RGB", err |-> 0]
    [] value = 2 -> [ok |-> TRUE, val |-> "Text", err |-> 0]
    [] OTHER -> [ok |-> FALSE, val |-> "None", err |-> 0]

try_from_text_as_rgb(value) ==
  CASE value = 0 -> [ok |-> TRUE, val |-> "Indexed", err |-> 0]
    [] value = 1 -> [ok |-> TRUE, val |-> "RGB", err |-> 0]
    [] value = 2 -> [ok |-> TRUE, val |-> "RGB", err |-> 0]
    [] OTHER -> [ok |-> FALSE, val |-> "None", err |-> value]

try_from(value) ==
  CASE value = 0 -> [ok |-> TRUE, val |-> "Indexed", err |-> 0]
    [] value = 1 -> [ok |-> TRUE, val |-> "RGB", err |-> 0]
    [] value = 2 -> [ok |-> TRUE, val |-> "Text", err |-> 0]
    [] OTHER -> [ok |-> FALSE, val |-> "None", err |-> value]

\* slice::from_raw_parts(ptr as *const FramebufferColor, len): a fat pointer;
\* nothing is read and nothing is checked.
from_raw_parts(ptr, len) == [ptr |-> ptr, len |-> len]

Ok(v) == [ok |-> TRUE, val |-> v, err |-> 0]
Err(e) == [ok |-> FALSE, val |-> [kind |-> "None"], err |-> e]

\* FramebufferTag::buffer_type over the memory the tag lies in: the result,
\* the reader as it ends, and every address the reader dereferenced.
buffer_type(self, mem) ==
  LET reader == Reader_new(buffer_as_ptr(self))
      typ == try_from(self.type_no)
  IN IF ~typ.ok
     THEN [result |-> Err(typ.err), reader |-> reader, at |-> {}]
     ELSE CASE typ.val = "Indexed" ->
                 LET num_colors == read_u32(mem, reader)
                     palette == from_raw_parts(current_address(num_colors.r), num_colors.val)
                 IN [ result |-> Ok([kind |-> "Indexed", palette |-> palette]),
                      reader |-> num_colors.r,
                      at |-> num_colors.at ]
            [] typ.val = "RGB" ->
                 LET red_pos == read_u8(mem, reader)
                     red_mask == read_u8(mem, red_pos.r)
                     green_pos == read_u8(mem, red_mask.r)
                     green_mask == read_u8(mem, green_pos.r)
                     blue_pos == read_u8(mem, green_mask.r)
                     blue_mask == read_u8(mem, blue_pos.r)
                 IN [ result |-> Ok([ kind |-> "RGB",
                                      red |-> [position |-> red_pos.val, size |-> red_mask.val],
                                      green |-> [position |-> green_pos.val, size |-> green_mask.val],
                                      blue |-> [position |-> blue_pos.val, size |-> blue_mask.val] ]),
                      reader |-> blue_mask.r,
                      at |-> red_pos.at \cup red_mask.at \cup green_pos.at
                             \cup green_mask.at \cup blue_pos.at \cup blue_mask.at ]
            [] typ.val = "Text" ->
                 [result |-> Ok([kind |-> "Text"]), reader |-> reader, at |-> {}]

\* AsBytes of the two repr(C) structs: the fields in declaration order.
FieldAsBytes(f) == <<f.position, f.size>>
ColorAsBytes(c) == <<c.red, c.green, c.blue>>

\* FramebufferType::to_bytes
to_bytes_blue_first(v) ==
  CASE v.kind = "Indexed" ->
         to_ne_bytes(0, 1) \o to_ne_bytes(0, 2) \o to_ne_bytes(Len(v.palette), 4)
           \o Concat([i \in 1..Len(v.palette) |-> ColorAsBytes(v.palette[i])])
    [] v.kind = "RGB" ->
         to_ne_bytes(1, 1) \o to_ne_bytes(0, 2)
           \o FieldAsBytes(v.blue) \o FieldAsBytes(v.green) \o FieldAsBytes(v.red)
    [] v.kind = "Text" -> to_ne_bytes(2, 1) \o to_ne_bytes(0, 2)

to_bytes(v) ==
  CASE v.kind = "Indexed" ->
         to_ne_bytes(0, 1) \o to_ne_bytes(0, 2) \o to_ne_bytes(Len(v.palette), 4)
           \o Concat([i \in 1..Len(v.palette) |-> ColorAsBytes(v.palette[i])])
    [] v.kind = "RGB" ->
         to_ne_bytes(1, 1) \o to_ne_bytes(0, 2)
           \o FieldAsBytes(v.red) \o FieldAsBytes(v.green) \o FieldAsBytes(v.blue)
    [] v.kind = "Text" -> to_ne_bytes(2, 1) \o to_ne_bytes(0, 2)

\* new_boxed::<FramebufferTag>: header (ID, 8 + total length) followed by the
\* slices back to back, cast to the tag with dst_len of that header.
new_boxed(base, slices) ==
  LET body == Concat(slices)
      header == [typ |-> "Framebuffer", size |-> 8 + Len(body)]
  IN FramebufferTag(base, header, body, dst_len(header).len)

\* FramebufferTag::new, the box placed at address base.
FramebufferTag_new(base, a, p, w, h, b, buffer_type_arg) ==
  new_boxed(base, << to_ne_bytes(a, 8), to_ne_bytes(p, 4), to_ne_bytes(w, 4),
                      to_ne_bytes(h, 4), to_ne_bytes(b, 1), to_bytes(buffer_type_arg) >>)

\* Element i (from 0) of a palette view, read from memory.
PaletteEntry(mem, palette, i) ==
  [ red |-> Deref(mem, palette.ptr + ColorSize * i),
    green |-> Deref(mem, palette.ptr + ColorSize * i + 1),
    blue |-> Deref(mem, palette.ptr + ColorSize * i + 2) ]

\* ------------------------------------------------------ marker header tags

\* size_of::<EndHeaderTag>() and size_of::<EfiBootServiceHeaderTag>()
SizeOfEndHeaderTag == 8
SizeOfEfiBootServiceHeaderTag == 8

HeaderTagFlags == {"Required", "Optional"}

\* HeaderTagHeader::new and its accessors: the three fields as given.
HeaderTagHeader_new(typ, flags, size) == [typ |-> typ, flags |-> flags, size |-> size]
HeaderTagHeader_typ(h) == h.typ
HeaderTagHeader_flags(h) == h.flags
HeaderTagHeader_size(h) == h.size

EndHeaderTag_new ==
  [header |-> HeaderTagHeader_new("EntryAddress", "Required", SizeOfEndHeaderTag)]

EndHeaderTag_default == EndHeaderTag_new

EfiBootServiceHeaderTag_new(flags) ==
  [header |-> HeaderTagHeader_new("EfiBS", flags, SizeOfEfiBootServiceHeaderTag)]

\* typ(), flags(), size() of either marker tag.
typ(self) == HeaderTagHeader_typ(self.header)
flags(self) == HeaderTagHeader_flags(self.header)
size(self) == HeaderTagHeader_size(self.header)

\* ------------------------------------------------------------------ state

VARIABLES
  pc,        \* "start", "panicked" (dst_len's assertion failed), "tag", "parsed"
  header,    \* the TagHeader last given to dst_len
  dstLen,    \* what dst_len made of it
  tag,       \* the framebuffer tag in hand
  built,     \* the arguments of FramebufferTag::new the tag was built from
  result,    \* the last result of buffer_type
  reader,    \* the Reader of that call as the call ended
  touched,   \* the addresses that call's Reader dereferenced
  rmem,      \* memory window under the stand-alone Reader
  rd,        \* the stand-alone Reader
  rlast,     \* its last call: operation, offset before it, value returned
  rsum,      \* sum of the widths of the reads made on it
  htags      \* the marker header tags constructed so far, with their constructor

vars == <<pc, header, dstLen, tag, built, result, reader, touched, rmem, rd, rlast, rsum, htags>>

fbVars == <<pc, header, dstLen, tag, built, result, reader, touched>>
rdVars == <<rmem, rd, rlast, rsum>>

NoHeader == [typ |-> "None", size |-> 0]
NoTag == [base |-> 0, header |-> NoHeader, address |-> 0, pitch |-> 0, width |-> 0,
          height |-> 0, bpp |-> 0, type_no |-> 0, reserved |-> 0, buffer |-> <<>>]
NotBuilt == [by |-> "loaded"]
NoResult == [ok |-> FALSE, val |-> [kind |-> "None"], err |-> 0]
NoReader == [ptr |-> 0, off |-> 0]
NoMem == [base |-> 0, bytes |-> <<>>]
NoCall == [op |-> "new", start |-> 0, val |-> 0]

FbIdle ==
  /\ pc = "start"
  /\ header = NoHeader
  /\ dstLen = [panic |-> FALSE, len |-> 0]
  /\ tag = NoTag
  /\ built = NotBuilt
  /\ result = NoResult
  /\ reader = NoReader
  /\ touched = {}

RdIdle ==
  /\ rmem = NoMem
  /\ rd = NoReader
  /\ rlast = NoCall
  /\ rsum = 0

\* ------------------------------------------------ framebuffer tag: actions

\* The variant values FramebufferTag::new is given.
PaletteSeqs == UNION {[1..n -> Colors] : n \in 0..MaxPalette}
Variants ==
  {[kind |-> "Indexed", palette |-> p] : p \in PaletteSeqs}
    \cup {[kind |-> "RGB", red |-> r, green |-> g, blue |-> b] : r \in Fields, g \in Fields, b \in Fields}
    \cup {[kind |-> "Text"]}

\* A producer's record is cast to the tag: dst_len of its header gives the
\* length of the trailing buffer, or its assertion fails.
Load ==
  /\ pc = "start"
  /\ \E base \in TagBases, sz \in 0..(METADATA_SIZE + MaxPayloadLen), m \in Metas,
        t \in TypeNos, rsv \in ReservedVals :
       LET h == [typ |-> "Framebuffer", size |-> sz]
           dl == dst_len(h)
       IN /\ header' = h
          /\ dstLen' = dl
          /\ IF dl.panic
             THEN /\ pc' = "panicked"
                  /\ tag' = NoTag
             ELSE /\ pc' = "tag"
                  /\ \E payload \in [1..dl.len -> ByteVals] :
                       tag' = FramebufferTag(base, h,
                                to_ne_bytes(m.address, 8) \o to_ne_bytes(m.pitch, 4)
                                  \o to_ne_bytes(m.width, 4) \o to_ne_bytes(m.height, 4)
                                  \o to_ne_bytes(m.bpp, 1) \o to_ne_bytes(t, 1)
                                  \o to_ne_bytes(rsv, 2) \o payload,
                                dl.len)
  /\ UNCHANGED <<built, result, reader, touched, rmem, rd, rlast, rsum, htags>>

\* FramebufferTag::new
New ==
  /\ pc = "start"
  /\ \E base \in TagBases, m \in Metas, v \in Variants :
       LET t == FramebufferTag_new(base, m.address, m.pitch, m.width, m.height, m.bpp, v)
       IN /\ tag' = t
          /\ header' = t.header
          /\ dstLen' = dst_len(t.header)
          /\ built' = [by |-> "new", meta |-> m, variant |-> v]
  /\ pc' = "tag"
  /\ UNCHANGED <<result, reader, touched, rmem, rd, rlast, rsum, htags>>

\* FramebufferTag::buffer_type on the tag in hand.  The bytes behind the
\* record's declared end are whatever lies there.
BufferType ==
  /\ pc = "tag"
  /\ \E trail \in [1..(IF Len(tag.buffer) < TrailLen THEN TrailLen - Len(tag.buffer) ELSE 0) -> ByteVals] :
       LET mem == [base |-> buffer_as_ptr(tag), bytes |-> tag.buffer \o trail]
           r == buffer_type(tag, mem)
       IN /\ result' = r.result
          /\ reader' = r.reader
          /\ touched' = r.at
  /\ pc' = "parsed"
  /\ UNCHANGED <<header, dstLen, tag, built, rmem, rd, rlast, rsum, htags>>

Init == FbIdle /\ RdIdle /\ htags = <<>>

Next == Load \/ New \/ BufferType

Spec == Init /\ [][Next]_vars

\* ---------------------------------------------- stand-alone Reader: actions

\* A Reader is created over the first byte of a memory window.
ReaderInit ==
  /\ FbIdle
  /\ htags = <<>>
  /\ \E base \in TagBases, bytes \in [1..ReaderMemLen -> ReaderBytes] :
       /\ rmem = [base |-> base, bytes |-> bytes]
       /\ rd = Reader_new(base)
  /\ rlast = NoCall
  /\ rsum = 0

ReadU8 ==
  /\ rd.off + 1 <= Len(rmem.bytes)
  /\ LET x == read_u8(rmem, rd)
     IN /\ rd' = x.r
        /\ rlast' = [op |-> "read_u8", start |-> rd.off, val |-> x.val]
  /\ rsum' = rsum + 1
  /\ UNCHANGED <<fbVars, rmem, htags>>

ReadU16 ==
  /\ rd.off + 2 <= Len(rmem.bytes)
  /\ LET x == read_u16(rmem, rd)
     IN /\ rd' = x.r
        /\ rlast' = [op |-> "read_u16", start |-> rd.off, val |-> x.val]
  /\ rsum' = rsum + 2
  /\ UNCHANGED <<fbVars, rmem, htags>>

ReadU32 ==
  /\ rd.off + 4 <= Len(rmem.bytes)
  /\ LET x == read_u32(rmem, rd)
     IN /\ rd' = x.r
        /\ rlast' = [op |-> "read_u32", start |-> rd.off, val |-> x.val]
  /\ rsum' = rsum + 4
  /\ UNCHANGED <<fbVars, rmem, htags>>

CurrentAddress ==
  /\ rlast' = [op |-> "current_address", start |-> rd.off, val |-> current_address(rd)]
  /\ UNCHANGED <<fbVars, rmem, rd, rsum, htags>>

ReaderNext == ReadU8 \/ ReadU16 \/ ReadU32 \/ CurrentAddress

SpecReader == ReaderInit /\ [][ReaderNext]_vars

\* ---------------------------------------------- marker header tags: actions

NewEnd ==
  /\ Len(htags) < MaxTags
  /\ htags' = Append(htags, [by |-> "EndHeaderTag::new", tag |-> EndHeaderTag_new])
  /\ UNCHANGED <<fbVars, rdVars>>

DefaultEnd ==
  /\ Len(htags) < MaxTags
  /\ htags' = Append(htags, [by |-> "EndHeaderTag::default", tag |-> EndHeaderTag_default])
  /\ UNCHANGED <<fbVars, rdVars>>

NewEfiBootService ==
  /\ Len(htags) < MaxTags
  /\ \E f \in HeaderTagFlags :
       htags' = Append(htags, [by |-> "EfiBootServiceHeaderTag::new",
                               tag |-> EfiBootServiceHeaderTag_new(f)])
  /\ UNCHANGED <<fbVars, rdVars>>

HeaderNext == NewEnd \/ DefaultEnd \/ NewEfiBootService

SpecHeader == Init /\ [][HeaderNext]_vars

\* ----------------------------------------------------------------- claims

\* The payload of the tag in hand as a memory window, and its length.
Payload == [base |-> buffer_as_ptr(tag), bytes |-> tag.buffer]
L == Len(tag.buffer)

\* C1: for discriminant Indexed, a palette view whose extent (4 + 3*N bytes
\* from the start of the payload) exceeds the payload length is never
\* returned: the call reports an error instead.
C1_PaletteViewChecked ==
  (pc = "parsed" /\ tag.type_no = 0 /\ result.ok)
    => (result.val.palette.ptr - buffer_as_ptr(tag)) + 3 * result.val.palette.len <= L

\* C2: every address the cursor reads in buffer_type lies at a payload
\* offset strictly below the payload length.
C2_ReadsWithinPayload ==
  pc = "parsed"
    => \A a \in touched : a >= buffer_as_ptr(tag) /\ a - buffer_as_ptr(tag) < L

\* Whether the last result of buffer_type is Ok of variant v, the palette
\* view read entry by entry from the payload.
C3_SameVariant(v) ==
  /\ result.ok
  /\ result.val.kind = v.kind
  /\ CASE v.kind = "Indexed" ->
            /\ result.val.palette.len = Len(v.palette)
            /\ result.val.palette.ptr >= buffer_as_ptr(tag)
            /\ (result.val.palette.ptr - buffer_as_ptr(tag)) + 3 * Len(v.palette) <= L
            /\ \A i \in 1..Len(v.palette) :
                 PaletteEntry(Payload, result.val.palette, i - 1) = v.palette[i]
       [] v.kind = "RGB" ->
            /\ result.val.red = v.red
            /\ result.val.green = v.green
            /\ result.val.blue = v.blue
       [] v.kind = "Text" -> TRUE

\* C3: a tag built by FramebufferTag::new returns the arguments it was built
\* from: the five metadata values from the accessors, and the variant, with
\* its palette entries or field descriptors in order, from buffer_type.
C3_RoundTrip ==
  (pc = "parsed" /\ built.by = "new")
    => /\ address(tag) = built.meta.address
       /\ pitch(tag) = built.meta.pitch
       /\ width(tag) = built.meta.width
       /\ height(tag) = built.meta.height
       /\ bpp(tag) = built.meta.bpp
       /\ C3_SameVariant(built.variant)

C3_Witness ==
  /\ pc = "parsed"
  /\ built.by = "new"
  /\ built.variant.kind = "Indexed"
  /\ Len(built.variant.palette) = 2
  /\ built.variant.palette[1] # built.variant.palette[2]
  /\ built.meta.address = 753664

\* C4: the terminator header tag built by EndHeaderTag::new() or Default has
\* the End kind, the Required flag and size 8.
C4_EndTagIsTerminator ==
  \A i \in 1..Len(htags) :
    htags[i].by \in {"EndHeaderTag::new", "EndHeaderTag::default"}
      => /\ typ(htags[i].tag) = "End"
         /\ flags(htags[i].tag) = "Required"
         /\ size(htags[i].tag) = 8

\* C5: on a discriminant byte d outside {0, 1, 2}, buffer_type returns the
\* error carrying d, reads nothing, and leaves the tag and what its
\* accessors return as they were.
C5_UnknownType ==
  [][(pc = "tag" /\ pc' = "parsed" /\ tag.type_no \notin {0, 1, 2})
       => /\ ~result'.ok
          /\ result'.err = tag.type_no
          /\ touched' = {}
          /\ reader'.off = 0
          /\ tag' = tag
          /\ address(tag') = address(tag)
          /\ pitch(tag') = pitch(tag)
          /\ width(tag') = width(tag)
          /\ height(tag') = height(tag)
          /\ bpp(tag') = bpp(tag)]_vars

C5_Witness ==
  /\ pc = "parsed"
  /\ tag.type_no = 255
  /\ L > 0
  /\ ~result.ok
  /\ result.err = 255

\* The little-endian count in the first four payload bytes.
C6_Count == from_ne_bytes(SubSeq(tag.buffer, 1, 4))

\* C6: for discriminant Indexed with a payload holding the little-endian
\* count N and at least 3*N bytes after it, buffer_type returns a palette of
\* exactly N entries, entry i being the payload bytes at 4+3i, 4+3i+1, 4+3i+2.
C6_IndexedPalette ==
  (pc = "parsed" /\ tag.type_no = 0 /\ L >= 4 /\ L >= 4 + 3 * C6_Count)
    => /\ result.ok
       /\ result.val.kind = "Indexed"
       /\ result.val.palette.len = C6_Count
       /\ result.val.palette.ptr = buffer_as_ptr(tag) + 4
       /\ \A i \in 0..(C6_Count - 1) :
            PaletteEntry(Payload, result.val.palette, i)
              = [ red |-> tag.buffer[4 + 3 * i + 1],
                  green |-> tag.buffer[4 + 3 * i + 2],
                  blue |-> tag.buffer[4 + 3 * i + 3] ]

C6_Witness ==
  /\ pc = "parsed"
  /\ built.by = "loaded"
  /\ tag.type_no = 0
  /\ tag.buffer = <<1, 0, 0, 0, 1, 2, 0>>
  /\ result.ok
  /\ result.val.palette.len = 1

\* C7: for discriminant RGB and payload bytes b0..b5, buffer_type returns
\* red = (b0, b1), green = (b2, b3), blue = (b4, b5), having consumed exactly
\* those six bytes.
C7_RgbFields ==
  (pc = "parsed" /\ tag.type_no = 1 /\ L >= 6)
    => /\ result.ok
       /\ result.val = [ kind |-> "RGB",
                         red |-> [position |-> tag.buffer[1], size |-> tag.buffer[2]],
                         green |-> [position |-> tag.buffer[3], size |-> tag.buffer[4]],
                         blue |-> [position |-> tag.buffer[5], size |-> tag.buffer[6]] ]
       /\ reader.off = 6
       /\ touched = {buffer_as_ptr(tag) + i : i \in 0..5}

C7_Witness ==
  /\ pc = "parsed"
  /\ built.by = "loaded"
  /\ tag.type_no = 1
  /\ tag.buffer = <<0, 1, 2, 1, 0, 2>>
  /\ result.ok
  /\ result.val.blue = [position |-> 0, size |-> 2]

\* C8: for discriminant Text, buffer_type returns Text and reads no payload
\* byte, whatever bpp and the payload length are.
C8_Text ==
  (pc = "parsed" /\ tag.type_no = 2)
    => /\ result.ok
       /\ result.val = [kind |-> "Text"]
       /\ touched = {}
       /\ reader.off = 0

C8_Witness ==
  /\ pc = "parsed"
  /\ built.by = "loaded"
  /\ tag.type_no = 2
  /\ address(tag) = 753664
  /\ pitch(tag) = 160
  /\ width(tag) = 80
  /\ height(tag) = 25
  /\ bpp(tag) = 16
  /\ tag.reserved = 0
  /\ tag.header.size = 8 + 8 + 4 + 4 + 4 + 1 + 1 + 2
  /\ L = 0
  /\ result.val = [kind |-> "Text"]

\* C9: dst_len of a header with declared size s is s - 32 for s >= 32, and
\* is rejected for s < 32: no length comes out of such a header.
C9_DstLen ==
  pc # "start"
    => /\ header.size >= 32
            => /\ ~dstLen.panic
               /\ dstLen.len = header.size - (8 + 8 + 4 + 4 + 4 + 1 + 1 + 2)
               /\ pc \in {"tag", "parsed"}
               /\ L = dstLen.len
       /\ header.size < 32
            => /\ dstLen.panic
               /\ pc = "panicked"
       /\ dstLen.len >= 0

C9_Witness ==
  /\ pc = "panicked"
  /\ header.size = 31
  /\ dstLen.panic

\* The little-endian integer of the w bytes from offset start on.
RECURSIVE C10_LittleEndian(_, _, _)
C10_LittleEndian(mem, start, w) ==
  IF w = 0 THEN 0
  ELSE mem.bytes[start + 1] + 256 * C10_LittleEndian(mem, start + 1, w - 1)

C10_Width(op) ==
  CASE op = "read_u8" -> 1
    [] op = "read_u16" -> 2
    [] op = "read_u32" -> 4
    [] OTHER -> 0

\* What the last call on the stand-alone Reader left behind.
C10_ReaderState ==
  /\ rd.off = rsum
  /\ rd.ptr = rmem.base
  /\ rd.off = rlast.start + C10_Width(rlast.op)
  /\ rlast.op \in {"read_u8", "read_u16", "read_u32"}
       => rlast.val = C10_LittleEndian(rmem, rlast.start, C10_Width(rlast.op))
  /\ rlast.op = "current_address" => rlast.val = rmem.base + rd.off

\* C10: on a Reader over base address p the offset is the sum of the widths
\* read, each read returns the little-endian integer of the bytes it
\* consumed, current_address() is p + offset and does not advance, and no
\* call changes the backing bytes.
C10_Reader == []C10_ReaderState /\ [][rmem' = rmem]_vars

C10_Witness ==
  /\ rlast.op = "read_u32"
  /\ rlast.start = 2
  /\ rsum = 6
  /\ rmem.bytes = <<1, 0, 127, 1, 0, 127>>
  /\ rlast.val = 127 + 256 + 127 * 16777216

====
